---- MODULE Spec2Model ----
(***************************************************************************)
(* Hotspot audio playback of the reader (ReaderView.tsx): the shared       *)
(* per-asset Howl players, the sequential ("connected") queue, the repeat  *)
(* range selection and the repeat loop with its ephemeral Howl and timers. *)
(*                                                                         *)
(* React state is committed between any two handlers; a handler invoked    *)
(* from the UI reads the state of the latest render, while a callback      *)
(* stored in a timer or in a Howl reads the values of the render in which  *)
(* it was created (its closure).  Refs are read live.                      *)
(* Times are in tenths of a second.                                        *)
(*                                                                         *)
(* Apart from the audio session: the page navigation of ReaderView, the    *)
(* asynchronous rendering of one PdfPage on its canvas, and the roles      *)
(* function of the api (src/unnamed/part_000).                             *)
(***************************************************************************)
EXTENDS Bags, FiniteSets, Integers, Sequences, TLC

\* ---- bounds -------------------------------------------------------------
MaxQueue == 2
MaxEvents == 4
MaxLoops == 2
MaxQueueTimers == 2
MaxTime == 2
MaxPages == 12
MaxRenders == 3
MaxLen == 3

\* ---- book data ----------------------------------------------------------
None == "none"

\* bookData.hotspots: H1 and H2 lie in two loaded files, the file of H3 failed to load
Hotspots == {"H1", "H2", "H3"}

audioFile(h) == CASE h = "H1" -> "a" [] h = "H2" -> "b" [] OTHER -> "c"

audioStart(h) == CASE h = "H1" -> 10 [] h = "H2" -> 20 [] OTHER -> 0

audioEnd(h) == CASE h = "H1" -> 20 [] h = "H2" -> 30 [] OTHER -> 10

\* the audio files whose fetch succeeded: keys of howlInstances / audioFiles
howlInstances == {"a", "b"}

audioFiles == howlInstances

\* sprites[hotspot.id] = [startTime, duration] of the Howl of file f
sprites(f) ==
    {h \in Hotspots : audioFile(h) = f /\ (audioEnd(h) - audioStart(h)) * 100 > 0}

\* ---- state --------------------------------------------------------------
VARIABLES
    isPlaying, currentHotspot, audioQueue,
    isRepeatMode, isConnectedMode,
    repeatStartHotspot, repeatEndHotspot, isRepeating, repeatPaused,
    currentTimeoutRef, repeatHowlRef,
    howl, events, eph, timers,
    mounted,
    bookHotspots, spriteIndex,
    numPages, currentPage, viewMode,
    pageProps, renderIdRef, isRendered, renderTaskRef, isRenderingRef,
    renderTimer, renders, canvas,
    APPROVED_EMAILS, principalHeader, res

session == <<isPlaying, currentHotspot, audioQueue, isConnectedMode>>
selector == <<isRepeatMode, repeatStartHotspot, repeatEndHotspot>>
flags == <<isRepeating, repeatPaused>>
refs == <<currentTimeoutRef, repeatHowlRef>>
vars == <<isPlaying, currentHotspot, audioQueue, isRepeatMode, isConnectedMode,
          repeatStartHotspot, repeatEndHotspot, isRepeating, repeatPaused,
          currentTimeoutRef, repeatHowlRef, howl, events, eph, timers, mounted,
          bookHotspots, spriteIndex,
          numPages, currentPage, viewMode,
          pageProps, renderIdRef, isRendered, renderTaskRef, isRenderingRef,
          renderTimer, renders, canvas,
          APPROVED_EMAILS, principalHeader, res>>

\* bookData.hotspots as loaded, and the sprites handed to the Howl of each loaded file
book == <<bookHotspots, spriteIndex>>

\* the page navigation of ReaderView
nav == <<numPages, currentPage, viewMode>>

\* one PdfPage component: its props, refs and state, its render() calls in flight, its canvas
pdfPage == <<pageProps, renderIdRef, isRendered, renderTaskRef, isRenderingRef,
             renderTimer, renders, canvas>>

\* the roles function: its environment, its request and its response
endpoint == <<APPROVED_EMAILS, principalHeader, res>>

\* what the audio handlers never touch
apart == <<nav, pdfPage, endpoint>>

\* a state setter called by a surviving callback after the reader was unmounted is ignored
setState(cur, val) == IF mounted THEN val ELSE cur

\* variant: the ref keeps the value of the first render
isRepeatingRef_Stale == FALSE

\* isRepeatingRef.current is re-synchronised with isRepeating after every render
isRepeatingRef == isRepeating

\* ---- closures and timers ------------------------------------------------
\* variant: the pair is put in the order of its audio offsets
Loop_Sorted(s, e, cm, cp) ==
    IF audioStart(e) < audioStart(s)
    THEN [s |-> e, e |-> s, cm |-> cm, cp |-> cp]
    ELSE [s |-> s, e |-> e, cm |-> cm, cp |-> cp]

\* what playSegment closes over: the range and the render's isRepeatMode / repeatPaused
Loop(s, e, cm, cp) == [s |-> s, e |-> e, cm |-> cm, cp |-> cp]

NoLoop == Loop(None, None, FALSE, FALSE)

Timer(kind, L, h) == [kind |-> kind, loop |-> L, h |-> h]

EphSlots == 1 .. MaxLoops

\* the pending 500 ms timers (delayed loop start, pause between iterations); they fire
\* in the order in which they were set: h is the number of such timers set earlier
HalfSecond(tm) == {t \in BagToSet(tm) : t.kind \in {"start", "gap"}}

\* setTimeout(..., 500)
setHalfSecond(tm, kind, L) ==
    tm (+) SetToBag({Timer(kind, L, Cardinality(HalfSecond(tm)))})

\* the oldest 500 ms timer has fired: it is gone and the others move up
firedHalfSecond(tm) ==
    LET rest == {t \in BagToSet(tm) : t.kind \notin {"start", "gap"}}
    IN  [t \in rest |-> tm[t]]
            (+) SetToBag({[t EXCEPT !.h = t.h - 1] : t \in {x \in HalfSecond(tm) : x.h > 0}})

NoHowl == [st |-> "none", loop |-> NoLoop]

\* a timer id that has fired or was cleared (clearTimeout on it does nothing)
Expired == -1

\* clearTimeout(currentTimeoutRef.current): only iteration timers are stored in the ref
clearTimeout(tm, ref) ==
    [t \in {x \in BagToSet(tm) : ~(x.kind = "dur" /\ x.h = ref)} |-> tm[t]]

refAfterClear(ref) == IF ref = 0 THEN 0 ELSE Expired

\* ---- shared Howl players --------------------------------------------------
\* howl.stop() on every shared Howl
stopAll(hw) == [f \in howlInstances |-> [st |-> "idle", sprite |-> None]]

\* the 'stop' events those stops emit, one per Howl that had a sound
stopEvents(hw) ==
    LET n == Cardinality({f \in howlInstances : hw[f].st \in {"playing", "paused"}})
    IN  [i \in 1 .. n |-> "stop"]

\* howl.play(spriteId): nothing happens for an id that is not a sprite of the Howl
playSprite(hw, f, id) ==
    IF id \in sprites(f) THEN [hw EXCEPT ![f] = [st |-> "playing", sprite |-> id]] ELSE hw

playEvents(f, id) == IF id \in sprites(f) THEN <<"play">> ELSE <<>>

\* the hotspot records of the book of this model
Book ==
    [i \in 1 .. 3 |->
        LET h == CASE i = 1 -> "H1" [] i = 2 -> "H2" [] OTHER -> "H3"
        IN  [id |-> h, audioFile |-> audioFile(h),
             audioStart |-> audioStart(h), audioEnd |-> audioEnd(h)]]

\* variant: hotspots of non-positive duration are kept
RECURSIVE spritesUpTo_KeepEmpty(_, _, _)
spritesUpTo_KeepEmpty(hs, f, n) ==
    IF n = 0 THEN [id \in {} |-> <<0, 0>>]
    ELSE LET prev == spritesUpTo_KeepEmpty(hs, f, n - 1)
             hotspot == hs[n]
             startTime == hotspot.audioStart * 100
             dur == (hotspot.audioEnd - hotspot.audioStart) * 100
         IN  IF hotspot.audioFile = f
             THEN [id \in DOMAIN prev \cup {hotspot.id} |->
                      IF id = hotspot.id THEN <<startTime, dur>> ELSE prev[id]]
             ELSE prev

\* the sprites object built for file f from the first n hotspots (forEach, in order)
RECURSIVE spritesUpTo(_, _, _)
spritesUpTo(hs, f, n) ==
    IF n = 0 THEN [id \in {} |-> <<0, 0>>]
    ELSE LET prev == spritesUpTo(hs, f, n - 1)
             hotspot == hs[n]
             startTime == hotspot.audioStart * 100
             dur == (hotspot.audioEnd - hotspot.audioStart) * 100
         IN  IF hotspot.audioFile = f /\ dur > 0
             THEN [id \in DOMAIN prev \cup {hotspot.id} |->
                      IF id = hotspot.id THEN <<startTime, dur>> ELSE prev[id]]
             ELSE prev

\* one sprites object per audio file whose fetch succeeded
buildSprites(hs) == [f \in howlInstances |-> spritesUpTo(hs, f, Len(hs))]

NotBuilt == [f \in {} |-> 0]

\* no render() of the PdfPage was ever issued for this id
NoRender == [phase |-> "none", pageNumber |-> 0, size |-> 0]

\* the canvas before anything was drawn on it
Blank == [pageNumber |-> 0, size |-> 0, complete |-> FALSE]

\* no request has reached the roles function
NoHeader == [kind |-> "none", userDetails |-> <<>>]
NoResponse == [status |-> 0, email |-> <<>>, roles |-> {}]

\* useState(0), useState(0), useState('landscape')
InitNav ==
    /\ numPages = 0
    /\ currentPage = 0
    /\ viewMode = "landscape"

\* a PdfPage mounted with shouldRender false: nothing rendered, no render issued
InitPdfPage ==
    /\ pageProps = [pageNumber |-> 1, size |-> 1, shouldRender |-> FALSE]
    /\ renderIdRef = 0
    /\ isRendered = FALSE
    /\ renderTaskRef = 0
    /\ isRenderingRef = FALSE
    /\ renderTimer = 0
    /\ renders = [k \in 1 .. MaxRenders |-> NoRender]
    /\ canvas = Blank

InitApart ==
    /\ InitNav
    /\ InitPdfPage
    /\ APPROVED_EMAILS = <<>>
    /\ principalHeader = NoHeader
    /\ res = NoResponse

Init ==
    /\ bookHotspots = Book
    /\ spriteIndex = buildSprites(Book)
    /\ isPlaying = FALSE
    /\ currentHotspot = None
    /\ audioQueue = <<>>
    /\ isRepeatMode = FALSE
    /\ isConnectedMode = FALSE
    /\ repeatStartHotspot = None
    /\ repeatEndHotspot = None
    /\ isRepeating = FALSE
    /\ repeatPaused = FALSE
    /\ currentTimeoutRef = 0
    /\ repeatHowlRef = 0
    /\ howl = [f \in howlInstances |-> [st |-> "idle", sprite |-> None]]
    /\ events = <<>>
    /\ eph = [i \in EphSlots |-> NoHowl]
    /\ timers = EmptyBag
    /\ mounted = TRUE
    /\ InitApart


\* ---- playback coordinator ---------------------------------------------------
\* variant: the activation does not stop the other players first
playHotspotAudio_NoStop(hotspot, hi) ==
    IF audioFile(hotspot) \notin hi
    THEN UNCHANGED <<currentHotspot, howl, events>>
    ELSE /\ currentHotspot' = setState(currentHotspot, hotspot)
         /\ howl' = playSprite(howl, audioFile(hotspot), hotspot)
         /\ events' = events \o playEvents(audioFile(hotspot), hotspot)

\* playHotspotAudio(hotspot), with the howlInstances of the calling closure
playHotspotAudio(hotspot, hi) ==
    IF audioFile(hotspot) \notin hi
    THEN UNCHANGED <<currentHotspot, howl, events>>
    ELSE /\ currentHotspot' = setState(currentHotspot, hotspot)
         /\ howl' = playSprite(stopAll(howl), audioFile(hotspot), hotspot)
         /\ events' = events \o stopEvents(howl) \o playEvents(audioFile(hotspot), hotspot)

\* the Howl callbacks are created by the effect of the first render and keep
\* that render's handleNextInQueue, i.e. its audioQueue and howlInstances
\* variant: the callback sees the live queue
MountAudioQueue_Live == audioQueue

MountAudioQueue == <<>>

MountHowlInstances == {}

\* handleNextInQueue(), with the audioQueue and howlInstances of its closure
handleNextInQueue(q, hi) ==
    IF Len(q) > 0
    THEN /\ audioQueue' = setState(audioQueue, Tail(audioQueue))
         /\ playHotspotAudio(q[1], hi)
    ELSE UNCHANGED <<audioQueue, currentHotspot, howl, events>>

\* variant: the hotspot is put at the head of the queue
enqueue_AtHead(q, hotspot) == <<hotspot>> \o q

\* setAudioQueue(prev => [...prev, hotspot])
enqueue(q, hotspot) == Append(q, hotspot)

\* the repeat loops in flight: their pending timers and loading players
LoopThreads ==
    BagCardinality(timers) - CopiesIn(Timer("queue", NoLoop, 0), timers)
        + Cardinality({i \in EphSlots : eph[i].st \in {"loading", "zombie"}})

\* handleHotspotClick(hotspot)
HotspotClick(hotspot) ==
    /\ mounted
    /\ UNCHANGED <<mounted, book, apart>>
    /\ IF isRepeatMode /\ ~isRepeating
       THEN /\ IF repeatStartHotspot = None
               THEN /\ repeatStartHotspot' = hotspot
                    /\ UNCHANGED <<repeatEndHotspot, timers>>
               ELSE IF repeatEndHotspot = None
               THEN /\ LoopThreads < MaxLoops
                    /\ repeatEndHotspot' = hotspot
                    /\ timers' = setHalfSecond(timers, "start",
                           Loop(repeatStartHotspot, hotspot, isRepeatMode, repeatPaused))
                    /\ UNCHANGED repeatStartHotspot
               ELSE /\ repeatStartHotspot' = hotspot
                    /\ repeatEndHotspot' = None
                    /\ UNCHANGED timers
            /\ UNCHANGED <<currentHotspot, howl, events, audioQueue>>
       ELSE IF isRepeating
       THEN UNCHANGED <<repeatStartHotspot, repeatEndHotspot, timers,
                        currentHotspot, howl, events, audioQueue>>
       ELSE IF isConnectedMode /\ isPlaying
       THEN /\ Len(audioQueue) < MaxQueue
            /\ audioQueue' = enqueue(audioQueue, hotspot)
            /\ UNCHANGED <<repeatStartHotspot, repeatEndHotspot, timers,
                           currentHotspot, howl, events>>
       ELSE /\ playHotspotAudio(hotspot, howlInstances)
            /\ Len(events') <= MaxEvents
            /\ UNCHANGED <<repeatStartHotspot, repeatEndHotspot, timers, audioQueue>>
    /\ UNCHANGED <<isPlaying, isRepeatMode, isConnectedMode, flags, refs, eph>>

\* a sprite (or the whole file) of a shared Howl plays to its end: 'end' is emitted
SegmentEnds(f) ==
    /\ UNCHANGED <<mounted, book, apart>>
    /\ howl[f].st = "playing"
    /\ Len(events) < MaxEvents
    /\ CopiesIn(Timer("queue", NoLoop, 0), timers) < MaxQueueTimers
    /\ howl' = [howl EXCEPT ![f] = [st |-> "idle", sprite |-> None]]
    /\ events' = Append(events, "end")
    /\ UNCHANGED <<session, selector, flags, refs, eph, timers>>

\* the callbacks onplay / onpause / onstop / onend of the shared Howls
onplay == isPlaying' = setState(isPlaying, TRUE) /\ UNCHANGED <<currentHotspot, timers>>

onpause == isPlaying' = setState(isPlaying, FALSE) /\ UNCHANGED <<currentHotspot, timers>>

\* variant: a stop advances the queue like a completion
onstop_ArmsQueueTimer ==
    /\ isPlaying' = setState(isPlaying, FALSE)
    /\ currentHotspot' = setState(currentHotspot, None)
    /\ timers' = timers (+) SetToBag({Timer("queue", NoLoop, 0)})

onstop ==
    /\ isPlaying' = setState(isPlaying, FALSE)
    /\ currentHotspot' = setState(currentHotspot, None)
    /\ UNCHANGED timers

\* variant: the `end` callback leaves the current hotspot set
onend_KeepCurrent ==
    IF isRepeatingRef
    THEN UNCHANGED <<isPlaying, currentHotspot, timers>>
    ELSE /\ isPlaying' = setState(isPlaying, FALSE)
         /\ UNCHANGED currentHotspot
         /\ timers' = timers (+) SetToBag({Timer("queue", NoLoop, 0)})

onend ==
    IF isRepeatingRef
    THEN UNCHANGED <<isPlaying, currentHotspot, timers>>
    ELSE /\ isPlaying' = setState(isPlaying, FALSE)
         /\ currentHotspot' = setState(currentHotspot, None)
         /\ timers' = timers (+) SetToBag({Timer("queue", NoLoop, 0)})

\* Howler delivers an emitted event to its listener on a later tick
DeliverEvent ==
    /\ UNCHANGED <<mounted, book, apart>>
    /\ events # <<>>
    /\ events' = Tail(events)
    /\ CASE Head(events) = "play" -> onplay
         [] Head(events) = "pause" -> onpause
         [] Head(events) = "stop" -> onstop
         [] OTHER -> onend
    /\ UNCHANGED <<audioQueue, isConnectedMode, selector, flags, refs, howl, eph>>

\* the 100 ms timer of onend calls the handleNextInQueue of the first render
QueueTimerFires ==
    /\ UNCHANGED <<mounted, book, apart>>
    /\ BagIn(Timer("queue", NoLoop, 0), timers)
    /\ timers' = timers (-) SetToBag({Timer("queue", NoLoop, 0)})
    /\ handleNextInQueue(MountAudioQueue, MountHowlInstances)
    /\ UNCHANGED <<isPlaying, isConnectedMode, selector, flags, refs, eph>>


\* ---- repeat loop ----------------------------------------------------------
\* howl.unload() of the ephemeral Howl h; a load in flight is abandoned, or (z) is
\* still reported as failed afterwards ("zombie"): an unloaded Howl never reaches onload
unload(ephv, h, z) ==
    IF h \notin EphSlots THEN ephv
    ELSE IF ephv[h].st \in {"loading", "zombie"}
    THEN IF z THEN [ephv EXCEPT ![h].st = "zombie"] ELSE [ephv EXCEPT ![h] = NoHowl]
    ELSE [ephv EXCEPT ![h] = NoHowl]

\* howl.pause() of the ephemeral Howl h
pause(ephv, h) ==
    IF h \in EphSlots /\ ephv[h].st = "playing" THEN [ephv EXCEPT ![h].st = "paused"] ELSE ephv

\* the pending iteration (duration) timers
IterationTimers(tm) == {t \in BagToSet(tm) : t.kind = "dur"}

\* a slot for a new Howl({...}): one that holds no Howl that can still sound or call back
\* (none yet, unloaded, failed to load or played to the end) and that no timer refers to
FreeSlots(ephv, tm) ==
    {i \in EphSlots : /\ ephv[i].st \in {"none", "failed"}
                      /\ \A t \in IterationTimers(tm) : t.h # i}

\* playSegment() of the loop closure L; rep is the isRepeating set so far in this handler
playSegment(L, ephv, tm, rep, z) ==
    IF ~L.cm \/ L.cp
    THEN /\ isRepeating' = setState(isRepeating, FALSE)
         /\ eph' = unload(ephv, repeatHowlRef, z)
         /\ repeatHowlRef' = 0
    ELSE /\ FreeSlots(ephv, tm) # {}
         /\ LET h == CHOOSE i \in FreeSlots(ephv, tm) : \A j \in FreeSlots(ephv, tm) : i <= j
            IN  /\ eph' = [ephv EXCEPT ![h] = [st |-> "loading", loop |-> L]]
                /\ repeatHowlRef' = h
         /\ isRepeating' = setState(isRepeating, rep)

\* duration = (endHotspot.audioEnd - startHotspot.audioStart) * 1000, in ms
duration(s, e) == (audioEnd(e) - audioStart(s)) * 100

\* variant: the range's duration is not checked
startRepeatPlayback_NoDurationCheck(L, tm, z) ==
    /\ howl' = stopAll(howl)
    /\ events' = events \o stopEvents(howl)
    /\ Len(events') <= MaxEvents
    /\ repeatPaused' = setState(repeatPaused, FALSE)
    /\ IF audioFile(L.s) \notin audioFiles
       THEN /\ isRepeating' = setState(isRepeating, FALSE)
            /\ eph' = unload(eph, repeatHowlRef, z)
            /\ UNCHANGED repeatHowlRef
       ELSE playSegment(L, unload(eph, repeatHowlRef, z), tm, TRUE, z)

\* startRepeatPlayback(startHotspot, endHotspot) called in the render that L records
startRepeatPlayback(L, tm, z) ==
    /\ howl' = stopAll(howl)
    /\ events' = events \o stopEvents(howl)
    /\ Len(events') <= MaxEvents
    /\ repeatPaused' = setState(repeatPaused, FALSE)
    /\ IF audioFile(L.s) \notin audioFiles
       THEN /\ isRepeating' = setState(isRepeating, FALSE)
            /\ eph' = unload(eph, repeatHowlRef, z)
            /\ UNCHANGED repeatHowlRef
       ELSE IF duration(L.s, L.e) <= 0
       THEN /\ isRepeating' = setState(isRepeating, FALSE)
            /\ eph' = unload(eph, repeatHowlRef, z)
            /\ UNCHANGED repeatHowlRef
       ELSE playSegment(L, unload(eph, repeatHowlRef, z), tm, TRUE, z)

\* startRepeatMode()
StartRepeatMode ==
    /\ mounted
    /\ UNCHANGED <<mounted, book, apart>>
    /\ ~isRepeatMode
    /\ isRepeatMode' = TRUE
    /\ repeatStartHotspot' = None
    /\ repeatEndHotspot' = None
    /\ isRepeating' = FALSE
    /\ repeatPaused' = FALSE
    /\ UNCHANGED <<session, refs, howl, events, eph, timers>>

\* variant: the exit does not clear the iteration timer
ExitRepeatMode_NoClear ==
    /\ mounted
    /\ UNCHANGED <<mounted, book, apart>>
    /\ isRepeatMode
    /\ isRepeatMode' = FALSE
    /\ repeatStartHotspot' = None
    /\ repeatEndHotspot' = None
    /\ isRepeating' = FALSE
    /\ repeatPaused' = FALSE
    /\ UNCHANGED <<timers, currentTimeoutRef>>
    /\ \E z \in BOOLEAN : eph' = unload(eph, repeatHowlRef, z)
    /\ repeatHowlRef' = 0
    /\ howl' = stopAll(howl)
    /\ events' = events \o stopEvents(howl)
    /\ Len(events') <= MaxEvents
    /\ UNCHANGED session

\* variant: the exit does not reset the paused flag
ExitRepeatMode_KeepPaused ==
    /\ mounted
    /\ UNCHANGED <<mounted, book, apart>>
    /\ isRepeatMode
    /\ isRepeatMode' = FALSE
    /\ repeatStartHotspot' = None
    /\ repeatEndHotspot' = None
    /\ isRepeating' = FALSE
    /\ UNCHANGED repeatPaused
    /\ timers' = clearTimeout(timers, currentTimeoutRef)
    /\ currentTimeoutRef' = refAfterClear(currentTimeoutRef)
    /\ \E z \in BOOLEAN : eph' = unload(eph, repeatHowlRef, z)
    /\ repeatHowlRef' = 0
    /\ howl' = stopAll(howl)
    /\ events' = events \o stopEvents(howl)
    /\ Len(events') <= MaxEvents
    /\ UNCHANGED session

\* variant: the exit does not reset the repeating flag
ExitRepeatMode_KeepRepeating ==
    /\ mounted
    /\ UNCHANGED <<mounted, book, apart>>
    /\ isRepeatMode
    /\ isRepeatMode' = FALSE
    /\ repeatStartHotspot' = None
    /\ repeatEndHotspot' = None
    /\ UNCHANGED isRepeating
    /\ repeatPaused' = FALSE
    /\ timers' = clearTimeout(timers, currentTimeoutRef)
    /\ currentTimeoutRef' = refAfterClear(currentTimeoutRef)
    /\ \E z \in BOOLEAN : eph' = unload(eph, repeatHowlRef, z)
    /\ repeatHowlRef' = 0
    /\ howl' = stopAll(howl)
    /\ events' = events \o stopEvents(howl)
    /\ Len(events') <= MaxEvents
    /\ UNCHANGED session

\* exitRepeatMode()
ExitRepeatMode ==
    /\ mounted
    /\ UNCHANGED <<mounted, book, apart>>
    /\ isRepeatMode
    /\ isRepeatMode' = FALSE
    /\ repeatStartHotspot' = None
    /\ repeatEndHotspot' = None
    /\ isRepeating' = FALSE
    /\ repeatPaused' = FALSE
    /\ timers' = clearTimeout(timers, currentTimeoutRef)
    /\ currentTimeoutRef' = refAfterClear(currentTimeoutRef)
    /\ \E z \in BOOLEAN : eph' = unload(eph, repeatHowlRef, z)
    /\ repeatHowlRef' = 0
    /\ howl' = stopAll(howl)
    /\ events' = events \o stopEvents(howl)
    /\ Len(events') <= MaxEvents
    /\ UNCHANGED session

\* pauseRepeat()
PauseRepeat ==
    /\ mounted
    /\ UNCHANGED <<mounted, book, apart>>
    /\ isRepeatMode /\ isRepeating /\ ~repeatPaused
    /\ repeatPaused' = TRUE
    /\ eph' = pause(eph, repeatHowlRef)
    /\ timers' = clearTimeout(timers, currentTimeoutRef)
    /\ currentTimeoutRef' = refAfterClear(currentTimeoutRef)
    /\ UNCHANGED <<session, selector, isRepeating, repeatHowlRef, howl, events>>

\* resumeRepeat()
ResumeRepeat ==
    /\ mounted
    /\ UNCHANGED <<mounted, book, apart>>
    /\ isRepeatMode /\ isRepeating /\ repeatPaused
    /\ IF repeatStartHotspot # None /\ repeatEndHotspot # None
       THEN \E z \in BOOLEAN :
                startRepeatPlayback(Loop(repeatStartHotspot, repeatEndHotspot,
                                         isRepeatMode, repeatPaused), timers, z)
       ELSE /\ repeatPaused' = FALSE
            /\ UNCHANGED <<isRepeating, repeatHowlRef, howl, events, eph>>
    /\ UNCHANGED <<session, selector, currentTimeoutRef, timers>>


\* the 500 ms timer of handleHotspotClick calls startRepeatPlayback(startPoint, endPoint)
StartTimerFires ==
    \E t \in BagToSet(timers) :
        /\ UNCHANGED <<mounted, book, apart>>
        /\ t.kind = "start" /\ t.h = 0
        /\ timers' = firedHalfSecond(timers)
        /\ \E z \in BOOLEAN : startRepeatPlayback(t.loop, timers, z)
        /\ UNCHANGED <<session, selector, currentTimeoutRef>>

\* onload of the ephemeral Howl h: seek, play and arm the iteration timer
EphLoaded ==
    \E h \in EphSlots :
        /\ UNCHANGED <<mounted, book, apart>>
        /\ eph[h].st = "loading"
        /\ eph' = [eph EXCEPT ![h] = [st |-> "playing", loop |-> NoLoop]]
        /\ timers' = clearTimeout(timers, currentTimeoutRef)
                        (+) SetToBag({Timer("dur", eph[h].loop, h)})
        /\ currentTimeoutRef' = h
        /\ UNCHANGED <<session, selector, flags, repeatHowlRef, howl, events>>

\* onloaderror of the ephemeral Howl h
EphLoadError ==
    \E h \in EphSlots :
        /\ UNCHANGED <<mounted, book, apart>>
        /\ eph[h].st \in {"loading", "zombie"}
        /\ eph' = [eph EXCEPT ![h] = NoHowl]
        /\ isRepeating' = setState(isRepeating, FALSE)
        /\ UNCHANGED <<session, selector, repeatPaused, refs, howl, events, timers>>

\* onplayerror of the ephemeral Howl h: the play() called in its onload could not start
\* the sound; the Howl stays loaded and silent ("failed")
EphPlayError ==
    \E h \in EphSlots :
        /\ UNCHANGED <<mounted, book, apart>>
        /\ eph[h].st = "playing"
        /\ eph' = [eph EXCEPT ![h].st = "failed"]
        /\ isRepeating' = setState(isRepeating, FALSE)
        /\ UNCHANGED <<session, selector, repeatPaused, refs, howl, events, timers>>

\* the ephemeral Howl h reaches the end of its file before it is unloaded
EphEnds ==
    \E h \in EphSlots :
        /\ UNCHANGED <<mounted, book, apart>>
        /\ eph[h].st = "playing"
        /\ eph' = [eph EXCEPT ![h] = NoHowl]
        /\ UNCHANGED <<session, selector, flags, refs, howl, events, timers>>

\* the iteration timer (duration) fires: unload and schedule the next playSegment
DurTimerFires ==
    \E t \in BagToSet(timers) :
        /\ UNCHANGED <<mounted, book, apart>>
        /\ t.kind = "dur"
        /\ eph' = [eph EXCEPT ![t.h] = NoHowl]
        /\ repeatHowlRef' = 0
        /\ timers' = setHalfSecond(timers (-) SetToBag({t}), "gap", t.loop)
        /\ currentTimeoutRef' = IF currentTimeoutRef = t.h THEN Expired ELSE currentTimeoutRef
        /\ UNCHANGED <<session, selector, flags, howl, events>>

\* the 500 ms timer between iterations calls playSegment of the same closure
GapTimerFires ==
    \E t \in BagToSet(timers) :
        /\ UNCHANGED <<mounted, book, apart>>
        /\ t.kind = "gap" /\ t.h = 0
        /\ timers' = firedHalfSecond(timers)
        /\ \E z \in BOOLEAN : playSegment(t.loop, eph, timers', isRepeating, z)
        /\ UNCHANGED <<session, selector, repeatPaused, currentTimeoutRef, howl, events>>

\* ---- connected (sequential) mode commands -----------------------------------
\* Object.keys(howlInstances)[0]
firstHowl == "a"

\* howl.play() without a sprite: resumes the paused sound, else plays the whole file
playWhole(hw, f) ==
    IF hw[f].st = "paused" THEN [hw EXCEPT ![f].st = "playing"]
    ELSE [hw EXCEPT ![f] = [st |-> "playing", sprite |-> "default"]]

\* startConnectedMode()
StartConnectedMode ==
    /\ mounted
    /\ UNCHANGED <<mounted, book, apart>>
    /\ ~isConnectedMode
    /\ isConnectedMode' = TRUE
    /\ howl' = playWhole(howl, firstHowl)
    /\ events' = Append(events, "play")
    /\ Len(events') <= MaxEvents
    /\ UNCHANGED <<isPlaying, currentHotspot, audioQueue, selector, flags, refs, eph, timers>>

\* exitConnectedMode()
ExitConnectedMode ==
    /\ mounted
    /\ UNCHANGED <<mounted, book, apart>>
    /\ isConnectedMode
    /\ isConnectedMode' = FALSE
    /\ howl' = stopAll(howl)
    /\ events' = events \o stopEvents(howl)
    /\ Len(events') <= MaxEvents
    /\ UNCHANGED <<isPlaying, currentHotspot, audioQueue, selector, flags, refs, eph, timers>>

\* pauseConnected()
PauseConnected ==
    /\ mounted
    /\ UNCHANGED <<mounted, book, apart>>
    /\ isConnectedMode /\ isPlaying
    /\ howl' = [f \in howlInstances |->
                  IF howl[f].st = "playing" THEN [howl[f] EXCEPT !.st = "paused"] ELSE howl[f]]
    /\ events' = events \o [i \in 1 .. Cardinality({f \in howlInstances : howl[f].st = "playing"})
                              |-> "pause"]
    /\ Len(events') <= MaxEvents
    /\ UNCHANGED <<isPlaying, currentHotspot, audioQueue, isConnectedMode,
                   selector, flags, refs, eph, timers>>

\* resumeConnected()
ResumeConnected ==
    /\ mounted
    /\ UNCHANGED <<mounted, book, apart>>
    /\ isConnectedMode /\ ~isPlaying
    /\ howl' = [f \in howlInstances |->
                  IF howl[f].st # "playing" THEN playWhole(howl, f)[f] ELSE howl[f]]
    /\ events' = events \o [i \in 1 .. Cardinality({f \in howlInstances : howl[f].st # "playing"})
                              |-> "play"]
    /\ Len(events') <= MaxEvents
    /\ UNCHANGED <<isPlaying, currentHotspot, audioQueue, isConnectedMode,
                   selector, flags, refs, eph, timers>>

\* ---- teardown ---------------------------------------------------------------
\* handleBackToShelf(): stop the shared Howls, clear the iteration timer, navigate('/');
\* the reader unmounts, its timers and Howls are left as they are
handleBackToShelf ==
    /\ mounted
    /\ mounted' = FALSE
    /\ howl' = stopAll(howl)
    /\ events' = events \o stopEvents(howl)
    /\ Len(events') <= MaxEvents
    /\ timers' = clearTimeout(timers, currentTimeoutRef)
    /\ currentTimeoutRef' = refAfterClear(currentTimeoutRef)
    /\ UNCHANGED <<session, selector, flags, repeatHowlRef, eph, book, apart>>

\* ---- loading the book's audio --------------------------------------------------
\* books given to the loader: two hotspots, each in a loaded file (a, b) or in one whose
\* fetch fails (c), with offsets in 0 .. MaxTime
BookInputs ==
    LET Recs(id) == [id : {id}, audioFile : {"a", "b", "c"},
                     audioStart : 0 .. MaxTime, audioEnd : 0 .. MaxTime]
    IN  {<<r1, r2>> : r1 \in Recs("H1"), r2 \in Recs("H2")}

\* the reader before loadPdf has run
InitLoad ==
    /\ bookHotspots \in BookInputs
    /\ spriteIndex = NotBuilt
    /\ isPlaying = FALSE
    /\ currentHotspot = None
    /\ audioQueue = <<>>
    /\ isRepeatMode = FALSE
    /\ isConnectedMode = FALSE
    /\ repeatStartHotspot = None
    /\ repeatEndHotspot = None
    /\ isRepeating = FALSE
    /\ repeatPaused = FALSE
    /\ currentTimeoutRef = 0
    /\ repeatHowlRef = 0
    /\ howl = [f \in howlInstances |-> [st |-> "idle", sprite |-> None]]
    /\ events = <<>>
    /\ eph = [i \in EphSlots |-> NoHowl]
    /\ timers = EmptyBag
    /\ mounted = TRUE
    /\ InitApart

\* loadPdf: the sprites of every loaded audio file are built and given to its Howl
loadPdf ==
    /\ spriteIndex = NotBuilt
    /\ spriteIndex' = buildSprites(bookHotspots)
    /\ UNCHANGED <<session, selector, flags, refs, howl, events, eph, timers,
                   mounted, bookHotspots, apart>>

SpecLoad == InitLoad /\ [][loadPdf]_vars

\* the audio session, left alone by page navigation, page rendering and the roles function
reader == <<session, selector, flags, refs, howl, events, eph, timers, mounted, book>>

\* ---- page navigation ------------------------------------------------------------
Max(a, b) == IF a >= b THEN a ELSE b

Min(a, b) == IF a <= b THEN a ELSE b

\* variant: the target is not floored at 0
handlePageChange_NoFloor(page) == currentPage' = Min(numPages - 1, page)

\* handlePageChange(page): Math.max(0, Math.min(numPages - 1, page))
handlePageChange(page) == currentPage' = Max(0, Min(numPages - 1, page))

getNextPage == IF viewMode = "portrait" THEN currentPage + 1 ELSE currentPage + 2

getPrevPage ==
    IF viewMode = "portrait" THEN currentPage - 1
    ELSE IF currentPage <= 1 THEN 0 ELSE currentPage - 2

\* loadPdf has the document: setNumPages(pdf.numPages); setCurrentPage(0)
pdfLoaded(n) ==
    /\ numPages' = n
    /\ currentPage' = 0
    /\ UNCHANGED <<viewMode, reader, pdfPage, endpoint>>

\* the button "previous page", disabled at currentPage <= 0
PrevPageButton ==
    /\ ~(currentPage <= 0)
    /\ handlePageChange(getPrevPage)
    /\ UNCHANGED <<numPages, viewMode, reader, pdfPage, endpoint>>

\* the button "next page", disabled at !numPages || getNextPage() >= numPages
NextPageButton ==
    /\ ~(numPages = 0 \/ getNextPage >= numPages)
    /\ handlePageChange(getNextPage)
    /\ UNCHANGED <<numPages, viewMode, reader, pdfPage, endpoint>>

\* the targets a viewer can hand to onPageChange: any integer around the page range
PageTargets == -2 .. MaxPages + 2

\* onPageChange(page) of a viewer (flip callback, swipe); viewers exist once pdfDoc is set
onPageChange(page) ==
    /\ numPages >= 1
    /\ handlePageChange(page)
    /\ UNCHANGED <<numPages, viewMode, reader, pdfPage, endpoint>>

\* updateViewMode() on a resize
updateViewMode(m) ==
    /\ viewMode' = m
    /\ m # viewMode
    /\ UNCHANGED <<numPages, currentPage, reader, pdfPage, endpoint>>

NextPages ==
    \/ \E n \in 1 .. MaxPages : pdfLoaded(n)
    \/ PrevPageButton
    \/ NextPageButton
    \/ \E page \in PageTargets : onPageChange(page)
    \/ \E m \in {"landscape", "portrait"} : updateViewMode(m)

SpecPages == Init /\ [][NextPages]_vars

\* ---- PdfPage: rendering a page on its canvas -------------------------------------
\* the props the render effect depends on: pageNumber, width x height (0: no room yet,
\* 1: the room of the page) and shouldRender
Props == [pageNumber : 1 .. 2, size : 0 .. 1, shouldRender : BOOLEAN]

\* variant: every render() takes itself for the current one
isCurrent_Always(k) == TRUE

\* currentRenderId === renderIdRef.current
isCurrent(k) == k = renderIdRef

\* renderTaskRef.current.cancel(): the render() awaiting the task gets the
\* RenderingCancelledException and ends in its catch
cancel(rs, task) ==
    IF task = 0 THEN rs ELSE [rs EXCEPT ![task].phase = "cancelled"]

\* a prop of the dependency list changes: the cleanup of the previous effect (there is
\* one only if that effect went past the shouldRender test), then the effect
PropsChange(p) ==
    /\ p # pageProps
    /\ pageProps' = p
    /\ LET cleanup == pageProps.shouldRender
           task == IF cleanup THEN renderTaskRef ELSE 0
           rs == IF cleanup /\ renderTimer # 0
                 THEN cancel([renders EXCEPT ![renderTimer].phase = "cleared"], task)
                 ELSE cancel(renders, task)
       IN  /\ renderTaskRef' = IF cleanup THEN 0 ELSE renderTaskRef
           /\ isRenderingRef' = IF cleanup THEN FALSE ELSE isRenderingRef
           /\ IF ~p.shouldRender
              THEN /\ isRendered' = FALSE
                   /\ renders' = rs
                   /\ renderTimer' = 0
                   /\ UNCHANGED renderIdRef
              ELSE /\ renderIdRef < MaxRenders
                   /\ renderIdRef' = renderIdRef + 1
                   /\ renders' = [rs EXCEPT ![renderIdRef + 1] =
                                     [phase |-> "timer", pageNumber |-> p.pageNumber,
                                      size |-> p.size]]
                   /\ renderTimer' = renderIdRef + 1
                   /\ UNCHANGED isRendered
    /\ UNCHANGED <<canvas, reader, nav, endpoint>>

\* setTimeout(render, 0) fires: render() up to its first await
RenderTimerFires ==
    /\ renderTimer # 0
    /\ renderTimer' = 0
    /\ LET k == renderTimer
       IN  IF renders[k].size <= 0
           THEN /\ renders' = [renders EXCEPT ![k].phase = "returned"]
                /\ UNCHANGED <<isRendered, renderTaskRef, isRenderingRef>>
           ELSE LET task == IF isRenderingRef THEN renderTaskRef ELSE 0
                    rs == cancel(renders, task)
                IN  /\ renderTaskRef' = IF task # 0 THEN 0 ELSE renderTaskRef
                    /\ IF isCurrent(k)
                       THEN /\ isRenderingRef' = (task = 0)
                            /\ isRendered' = FALSE
                            /\ renders' = [rs EXCEPT ![k].phase = "getPage"]
                       ELSE /\ isRenderingRef' = (isRenderingRef /\ task = 0)
                            /\ renders' = [rs EXCEPT ![k].phase = "stale"]
                            /\ UNCHANGED isRendered
    /\ UNCHANGED <<pageProps, renderIdRef, canvas, reader, nav, endpoint>>

\* pdf.getPage resolves for render k: the canvas is sized and cleared and page.render()
\* starts; where another task still draws on the canvas, page.render() of some pdf.js
\* builds throws (the catch of render k runs), of others draws as well
GetPageResolves(k) ==
    /\ renders[k].phase = "getPage"
    /\ IF ~isCurrent(k)
       THEN /\ renders' = [renders EXCEPT ![k].phase = "stale"]
            /\ UNCHANGED <<canvas, renderTaskRef, isRenderingRef>>
       ELSE /\ canvas' = [pageNumber |-> renders[k].pageNumber, size |-> renders[k].size,
                          complete |-> FALSE]
            /\ \/ /\ renders' = [renders EXCEPT ![k].phase = "render"]
                  /\ renderTaskRef' = k
                  /\ UNCHANGED isRenderingRef
               \/ /\ \E j \in 1 .. MaxRenders : renders[j].phase = "render"
                  /\ renders' = [renders EXCEPT ![k].phase = "failed"]
                  /\ renderTaskRef' = 0
                  /\ isRenderingRef' = FALSE
    /\ UNCHANGED <<pageProps, renderIdRef, isRendered, renderTimer, reader, nav, endpoint>>

\* the render task of render k completes: the page is drawn; the rendered flag is set if
\* render k is still the current one
RenderCompletes(k) ==
    /\ renders[k].phase = "render"
    /\ canvas' = IF canvas.pageNumber = renders[k].pageNumber /\ canvas.size = renders[k].size
                 THEN [canvas EXCEPT !.complete = TRUE]
                 ELSE canvas
    /\ isRendered' = IF isCurrent(k) THEN TRUE ELSE isRendered
    /\ renders' = [renders EXCEPT ![k].phase = IF isCurrent(k) THEN "done" ELSE "stale"]
    /\ renderTaskRef' = 0
    /\ isRenderingRef' = FALSE
    /\ UNCHANGED <<pageProps, renderIdRef, renderTimer, reader, nav, endpoint>>

NextPdfPage ==
    \/ \E p \in Props : PropsChange(p)
    \/ RenderTimerFires
    \/ \E k \in 1 .. MaxRenders : GetPageResolves(k)
    \/ \E k \in 1 .. MaxRenders : RenderCompletes(k)

SpecPdfPage == Init /\ [][NextPdfPage]_vars

\* ---- the roles function (api) ------------------------------------------------------
\* strings are sequences of characters; the characters that matter to the whitelist
Chars == {"a", "b", " ", ","}

\* the strings of at most n characters
Strings(n) == UNION {[1 .. m -> Chars] : m \in 0 .. n}

\* s.split(',')
RECURSIVE split(_)
split(s) ==
    LET commas == {i \in 1 .. Len(s) : s[i] = ","}
    IN  IF commas = {} THEN <<s>>
        ELSE LET i == CHOOSE c \in commas : \A c2 \in commas : c <= c2
             IN  <<SubSeq(s, 1, i - 1)>> \o split(SubSeq(s, i + 1, Len(s)))

RECURSIVE trimStart(_)
trimStart(s) == IF s # <<>> /\ Head(s) = " " THEN trimStart(Tail(s)) ELSE s

RECURSIVE trimEnd(_)
trimEnd(s) == IF s # <<>> /\ s[Len(s)] = " " THEN trimEnd(SubSeq(s, 1, Len(s) - 1)) ELSE s

\* s.trim()
trim(s) == trimEnd(trimStart(s))

\* variant: the empty entries are kept
whitelist_KeepEmpty(env) ==
    LET fields == split(env) IN [i \in 1 .. Len(fields) |-> trim(fields[i])]

\* (process.env.APPROVED_EMAILS || "").split(',').map(s => s.trim()).filter(Boolean);
\* an unset variable reads as the empty string
whitelist(env) ==
    LET fields == split(env)
    IN  SelectSeq([i \in 1 .. Len(fields) |-> trim(fields[i])], LAMBDA x : x # <<>>)

\* list.includes(x)
includes(list, x) == \E i \in 1 .. Len(list) : list[i] = x

\* the x-ms-client-principal header of a request: absent, not decodable as JSON ("bad"),
\* JSON without userDetails ("null"), or JSON with the userDetails given
Headers ==
    [kind : {"none", "bad", "null"}, userDetails : {<<>>}]
        \cup [kind : {"user"}, userDetails : Strings(MaxLen - 1)]

\* a request reaches the function
InitRequest ==
    /\ bookHotspots = Book
    /\ spriteIndex = buildSprites(Book)
    /\ isPlaying = FALSE
    /\ currentHotspot = None
    /\ audioQueue = <<>>
    /\ isRepeatMode = FALSE
    /\ isConnectedMode = FALSE
    /\ repeatStartHotspot = None
    /\ repeatEndHotspot = None
    /\ isRepeating = FALSE
    /\ repeatPaused = FALSE
    /\ currentTimeoutRef = 0
    /\ repeatHowlRef = 0
    /\ howl = [f \in howlInstances |-> [st |-> "idle", sprite |-> None]]
    /\ events = <<>>
    /\ eph = [i \in EphSlots |-> NoHowl]
    /\ timers = EmptyBag
    /\ mounted = TRUE
    /\ InitNav
    /\ InitPdfPage
    /\ APPROVED_EMAILS \in Strings(MaxLen)
    /\ principalHeader \in Headers
    /\ res = NoResponse

\* module.exports: the function answers the request
rolesFunction ==
    /\ res = NoResponse
    /\ res' = IF principalHeader.kind = "bad"
              THEN [status |-> 500, email |-> <<>>, roles |-> {}]
              ELSE LET email == IF principalHeader.kind = "user"
                                THEN principalHeader.userDetails
                                ELSE <<>>
                   IN  [status |-> 200, email |-> email,
                        roles |-> IF includes(whitelist(APPROVED_EMAILS), email)
                                  THEN {"approved"} ELSE {}]
    /\ UNCHANGED <<APPROVED_EMAILS, principalHeader, reader, nav, pdfPage>>

SpecRoles == InitRequest /\ [][rolesFunction]_vars

\* ---- specification ----------------------------------------------------------
Next ==
    \/ \E h \in Hotspots : HotspotClick(h)
    \/ \E f \in howlInstances : SegmentEnds(f)
    \/ DeliverEvent
    \/ QueueTimerFires
    \/ StartRepeatMode
    \/ ExitRepeatMode
    \/ PauseRepeat
    \/ ResumeRepeat
    \/ StartTimerFires
    \/ EphLoaded
    \/ EphLoadError
    \/ EphPlayError
    \/ EphEnds
    \/ DurTimerFires
    \/ GapTimerFires
    \/ StartConnectedMode
    \/ ExitConnectedMode
    \/ PauseConnected
    \/ ResumeConnected
    \/ handleBackToShelf

Spec == Init /\ [][Next]_vars


\* Normal mode only: taps, segment completions, event delivery
NextNormal ==
    \/ \E h \in Hotspots : HotspotClick(h)
    \/ \E f \in howlInstances : SegmentEnds(f)
    \/ DeliverEvent
    \/ QueueTimerFires

SpecNormal == Init /\ [][NextNormal]_vars

\* Normal and sequential (connected) mode
NextSequential ==
    \/ \E h \in Hotspots : HotspotClick(h)
    \/ \E f \in howlInstances : SegmentEnds(f)
    \/ DeliverEvent
    \/ QueueTimerFires
    \/ StartConnectedMode
    \/ ExitConnectedMode
    \/ PauseConnected
    \/ ResumeConnected

SpecSequential == Init /\ [][NextSequential]_vars

\* handleHotspotClick(hotspot) while the reader is in repeat mode
RangeTap(hotspot) == isRepeatMode /\ HotspotClick(hotspot)

\* Repeat mode: range taps, the repeat commands, the loop's timers and players
NextRepeat ==
    \/ \E h \in Hotspots : RangeTap(h)
    \/ StartRepeatMode
    \/ ExitRepeatMode
    \/ PauseRepeat
    \/ ResumeRepeat
    \/ StartTimerFires
    \/ EphLoaded
    \/ EphLoadError
    \/ EphEnds
    \/ DurTimerFires
    \/ GapTimerFires

SpecRepeat == Init /\ [][NextRepeat]_vars

\* Repeat mode with the connected-mode switch: range taps, the repeat commands and loop,
\* entering connected mode, completions and events of the shared players
NextExclusive ==
    \/ \E h \in Hotspots : RangeTap(h)
    \/ StartRepeatMode
    \/ ExitRepeatMode
    \/ PauseRepeat
    \/ ResumeRepeat
    \/ StartTimerFires
    \/ EphLoaded
    \/ EphLoadError
    \/ EphEnds
    \/ DurTimerFires
    \/ GapTimerFires
    \/ StartConnectedMode
    \/ \E f \in howlInstances : SegmentEnds(f)
    \/ DeliverEvent
    \/ QueueTimerFires

SpecExclusive == Init /\ [][NextExclusive]_vars

\* The loop with failing ephemeral players: range taps, entering repeat mode, the loop's
\* timers, loads, load errors and play errors
NextLoopErrors ==
    \/ \E h \in Hotspots : RangeTap(h)
    \/ StartRepeatMode
    \/ StartTimerFires
    \/ EphLoaded
    \/ EphLoadError
    \/ EphPlayError
    \/ EphEnds
    \/ DurTimerFires
    \/ GapTimerFires

SpecLoopErrors == Init /\ [][NextLoopErrors]_vars

\* Taps in every mode with the errors of the repeat loop: taps, completions and events of
\* the shared players, entering and leaving repeat mode, the delayed start (valid or
\* rejected), and the load failure of the ephemeral player
NextErrors ==
    \/ \E h \in Hotspots : HotspotClick(h)
    \/ \E f \in howlInstances : SegmentEnds(f)
    \/ DeliverEvent
    \/ QueueTimerFires
    \/ StartRepeatMode
    \/ ExitRepeatMode
    \/ StartTimerFires
    \/ EphLoadError

SpecErrors == Init /\ [][NextErrors]_vars

\* The running loop next to a shared player: range taps, entering repeat mode, the loop's
\* timers and loads, entering connected mode, completions and events of the shared players
NextLoopShared ==
    \/ \E h \in Hotspots : RangeTap(h)
    \/ StartRepeatMode
    \/ StartTimerFires
    \/ EphLoaded
    \/ DurTimerFires
    \/ GapTimerFires
    \/ StartConnectedMode
    \/ \E f \in howlInstances : SegmentEnds(f)
    \/ DeliverEvent
    \/ QueueTimerFires

SpecLoopShared == Init /\ [][NextLoopShared]_vars

\* Normal mode with the repeat-mode switch: taps, completions, events, entering and
\* leaving repeat mode
NextModeSwitch ==
    \/ \E h \in Hotspots : HotspotClick(h)
    \/ \E f \in howlInstances : SegmentEnds(f)
    \/ DeliverEvent
    \/ QueueTimerFires
    \/ StartRepeatMode
    \/ ExitRepeatMode

SpecModeSwitch == Init /\ [][NextModeSwitch]_vars

\* onloaderror of an ephemeral Howl that was unloaded while it was loading
AbandonedLoadFails ==
    /\ EphLoadError
    /\ \A h \in EphSlots : eph[h].st = "loading" => eph'[h] = eph[h]

\* the iteration timer armed by the ephemeral Howl h fires
IterationTimerFires(h) ==
    /\ DurTimerFires
    /\ \E t \in IterationTimers(timers) : t.h = h /\ ~BagIn(t, timers')

\* A loop left to itself: range taps, the loop's timers, loads that succeed; no pause,
\* no exit.  Every pending timer fires, every load and every playback comes to its end.
NextLoop ==
    \/ \E h \in Hotspots : RangeTap(h)
    \/ StartRepeatMode
    \/ StartTimerFires
    \/ EphLoaded
    \/ EphEnds
    \/ AbandonedLoadFails
    \/ DurTimerFires
    \/ GapTimerFires

SpecLoopFair ==
    /\ Init
    /\ [][NextLoop]_vars
    /\ WF_vars(StartTimerFires)
    /\ WF_vars(GapTimerFires)
    /\ \A h \in EphSlots : WF_vars(IterationTimerFires(h))
    /\ WF_vars(EphLoaded)
    /\ WF_vars(EphEnds)
    /\ WF_vars(AbandonedLoadFails)

\* Repeat mode, and leaving the reader
NextTeardown ==
    \/ \E h \in Hotspots : RangeTap(h)
    \/ StartRepeatMode
    \/ ExitRepeatMode
    \/ PauseRepeat
    \/ ResumeRepeat
    \/ StartTimerFires
    \/ EphLoaded
    \/ EphLoadError
    \/ EphEnds
    \/ DurTimerFires
    \/ GapTimerFires
    \/ handleBackToShelf

SpecTeardown == Init /\ [][NextTeardown]_vars


\* ---- properties ---------------------------------------------------------------
QueueTimer == Timer("queue", NoLoop, 0)

SharedPlaying == {f \in howlInstances : howl[f].st = "playing"}

EphPlaying == {h \in EphSlots : eph[h].st = "playing"}

\* no shared player sounds or has an event or queue timer outstanding
SharedQuiet ==
    /\ \A f \in howlInstances : howl[f].st = "idle"
    /\ events = <<>>
    /\ ~BagIn(QueueTimer, timers)

\* the repeat loop is Stopped: not repeating, no timer or load of a loop outstanding, no player
LoopStopped ==
    /\ ~isRepeating
    /\ LoopThreads = 0
    /\ \A h \in EphSlots : eph[h].st = "none"

\* C1: under Normal-mode activations and completions, two shared players never play at once
C1_NoTwoSharedPlaying == Cardinality(SharedPlaying) <= 1

\* file b was activated while file a was playing: a is stopped, its stop event is pending
C1_Witness ==
    /\ howl["b"].st = "playing"
    /\ howl["a"].st = "idle"
    /\ events # <<>>
    /\ Head(events) = "stop"

\* C2: in every mode, at most one audio source (shared or ephemeral player) is sounding
C2_AtMostOneSounding == Cardinality(SharedPlaying) + Cardinality(EphPlaying) <= 1

\* C3: in Sequential mode every queued hotspot gets played, in order: once playback has
\* come to rest (nothing playing, no event or queue timer outstanding) nothing playable
\* is left in the queue
C3_QueuePlayedInOrder ==
    (/\ isConnectedMode
     /\ SharedQuiet
     /\ \A i \in 1 .. Len(audioQueue) : audioQueue[i] \in sprites(audioFile(audioQueue[i])))
        => audioQueue = <<>>

\* C4: when the timer armed by a segment's `ended` event fires in Sequential mode with a
\* playable hotspot at the head of the queue, that hotspot is popped and starts playing
C4_QueuedStartsAfterEnd ==
    [][(/\ CopiesIn(QueueTimer, timers') < CopiesIn(QueueTimer, timers)
        /\ isConnectedMode
        /\ audioQueue # <<>>
        /\ Head(audioQueue) \in sprites(audioFile(Head(audioQueue))))
          => (/\ audioQueue' = Tail(audioQueue)
              /\ howl'[audioFile(Head(audioQueue))] =
                    [st |-> "playing", sprite |-> Head(audioQueue)])]_vars

\* C5: an iteration timer is pending only as currentTimeoutRef.current, and exitRepeatMode
\* leaves no iteration timer pending, so the timer of the stopped iteration never fires
C5_StoppedTimerNeverFires ==
    [][/\ \A t \in IterationTimers(timers') : t.h = currentTimeoutRef'
       /\ ExitRepeatMode => IterationTimers(timers') = {}]_vars

\* exitRepeatMode has cleared the armed iteration timer and released the player
C5_Witness ==
    /\ ~isRepeatMode
    /\ currentTimeoutRef = Expired
    /\ repeatHowlRef = 0
    /\ LoopThreads = 0
    /\ \A h \in EphSlots : eph[h].st = "none"

\* C6: after exitRepeatMode, as long as the user issues no command, no ephemeral player
\* is created and none starts to sound
C6_NothingStartsAfterExit ==
    [][(~isRepeatMode /\ ~isRepeatMode')
          => \A h \in EphSlots :
                /\ eph'[h].st = "loading" => eph[h].st = "loading"
                /\ eph'[h].st = "playing" => eph[h].st = "playing"]_vars

\* C7: no loop is ever started for a pair whose hotspots reference different audio files
C7_NoLoopAcrossFiles ==
    \A h \in EphSlots :
        eph[h].st = "loading" => audioFile(eph[h].loop.s) = audioFile(eph[h].loop.e)

\* C8: an end tap whose audio file differs from the start's leaves the start recorded,
\* records no end and arms no loop start
C8_IncompatibleEndRejected ==
    [][\A hotspot \in Hotspots :
          (/\ HotspotClick(hotspot)
           /\ isRepeatMode /\ ~isRepeating
           /\ repeatStartHotspot # None /\ repeatEndHotspot = None
           /\ audioFile(hotspot) # audioFile(repeatStartHotspot))
             => (/\ repeatStartHotspot' = repeatStartHotspot
                 /\ repeatEndHotspot' = None
                 /\ timers' = timers)]_vars

C10_ResumeRestartsLoop ==
    [][(ResumeRepeat /\ repeatStartHotspot # None /\ repeatEndHotspot # None)
          => (/\ isRepeating'
              /\ ~repeatPaused'
              /\ \E h \in EphSlots :
                    /\ eph'[h].st = "loading"
                    /\ eph'[h].loop.s = repeatStartHotspot
                    /\ eph'[h].loop.e = repeatEndHotspot)]_vars

\* a player is created, or starts to sound, in this step
EphStarts ==
    \E h \in EphSlots :
        \/ eph'[h].st = "loading" /\ eph[h].st # "loading"
        \/ eph'[h].st = "playing" /\ eph[h].st # "playing"

\* C11: once pauseRepeat has been called, no ephemeral player sounds, and while the loop
\* stays paused (no resumeRepeat, no exitRepeatMode) no player is created or starts to sound
C11_PausedStaysSilent ==
    [][/\ PauseRepeat => EphPlaying' = {}
       /\ (repeatPaused /\ repeatPaused' /\ isRepeatMode /\ isRepeatMode') => ~EphStarts]_vars

\* the delayed start of timer t is a start with a loaded file and a duration <= 0
InvalidStart(t) ==
    /\ t.kind = "start" /\ t.h = 0
    /\ audioFile(t.loop.s) \in audioFiles
    /\ duration(t.loop.s, t.loop.e) <= 0
    /\ StartTimerFires

\* C12: starting the loop with a range of duration <= 0 leaves the controller not
\* repeating, creates no ephemeral player and schedules no timer
C12_InvalidRangeFails ==
    [][\A t \in BagToSet(timers) :
          InvalidStart(t) => (/\ ~isRepeating'
                              /\ \A h \in EphSlots : eph'[h].st = "loading" => eph[h].st = "loading"
                              /\ timers' = firedHalfSecond(timers))]_vars

\* the delayed start of the pair (H2, H1), of duration 0, has run and left the loop stopped
C12_Witness ==
    /\ isRepeatMode
    /\ repeatStartHotspot = "H2"
    /\ repeatEndHotspot = "H1"
    /\ timers = EmptyBag
    /\ LoopStopped

\* C13: after a start with a range of duration <= 0 the selector has no start and no end
C13_InvalidRangeResetsSelector ==
    [][\A t \in BagToSet(timers) :
          InvalidStart(t) => (repeatStartHotspot' = None /\ repeatEndHotspot' = None)]_vars

\* C14: activating a hotspot whose audio file has no loaded player changes neither the
\* current hotspot, nor the queue, nor the mode, nor any player
C14_MissingAssetIsNoOp ==
    [][\A hotspot \in Hotspots :
          (HotspotClick(hotspot) /\ audioFile(hotspot) \notin howlInstances)
             => UNCHANGED <<currentHotspot, audioQueue, isConnectedMode, isRepeatMode, howl>>]_vars

\* C15: in Normal mode, once the events of an activation have been delivered, the segment
\* that plays is the current hotspot and the playing indicator is on
C15_LastTapWins ==
    (events = <<>>)
        => \A f \in howlInstances :
              howl[f].st = "playing" => (currentHotspot = howl[f].sprite /\ isPlaying)

\* C16: in Sequential mode, an activation made while a started segment has not ended
\* appends to the queue and stops no player
C16_SequentialNeverPreempts ==
    [][\A hotspot \in Hotspots :
          (HotspotClick(hotspot) /\ isConnectedMode /\ SharedPlaying # {})
             => (audioQueue' = Append(audioQueue, hotspot) /\ howl' = howl)]_vars

\* C19: in Normal mode the `end` event of a segment clears the playing indicator and the
\* current hotspot, and neither it nor the timer it arms starts a segment
C19_EndedClearsCurrent ==
    [][/\ (events # <<>> /\ Head(events) = "end" /\ DeliverEvent)
             => (~isPlaying' /\ currentHotspot' = None /\ howl' = howl /\ audioQueue' = audioQueue)
       /\ QueueTimerFires
             => (howl' = howl /\ events' = events /\ UNCHANGED <<isPlaying, currentHotspot>>)]_vars

\* a segment has played to its end and its `end` event has been delivered
C19_Witness ==
    /\ ~isPlaying
    /\ currentHotspot = None
    /\ BagIn(QueueTimer, timers)
    /\ events = <<>>
    /\ \A f \in howlInstances : howl[f].st = "idle"

\* C17: handleBackToShelf leaves every shared player stopped, no ephemeral player loading
\* or sounding, and no timer pending that starts an iteration
C17_TeardownSilences ==
    [][handleBackToShelf
          => (/\ \A f \in howlInstances : howl'[f].st = "idle"
              /\ \A h \in EphSlots : eph'[h].st \in {"none", "paused"}
              /\ \A t \in BagToSet(timers') : t.kind \notin {"start", "gap"})]_vars

\* C18: when an ephemeral player is created, every other ephemeral player has been released
C18_OneEphemeralAlive ==
    [][\A h \in EphSlots :
          (eph'[h].st = "loading" /\ eph[h].st # "loading")
             => \A g \in EphSlots \ {h} : eph'[g].st \in {"none", "zombie"}]_vars

\* C20: with a complete range recorded in repeat mode, a tap on any hotspot records it as
\* the new start and clears the end
C20_TapAfterCompleteRestarts ==
    (isRepeatMode /\ repeatStartHotspot # None /\ repeatEndHotspot # None)
        => \A hotspot \in Hotspots :
              ENABLED (/\ HotspotClick(hotspot)
                       /\ repeatStartHotspot' = hotspot
                       /\ repeatEndHotspot' = None)

\* the hotspot records of the loaded book
BookRecords == {bookHotspots[i] : i \in 1 .. Len(bookHotspots)}

\* C23: the index of a loaded file F has an entry for id h exactly when hotspot h references
\* F with audioEnd - audioStart > 0, the entry being (audioStart, audioEnd - audioStart) in
\* ms; other hotspots have no entry in any index; building changes no playback state
C23_SpriteIndex ==
    [][loadPdf =>
          /\ DOMAIN spriteIndex' = howlInstances
          /\ \A f \in howlInstances : \A r \in BookRecords :
                /\ r.id \in DOMAIN spriteIndex'[f]
                      <=> (r.audioFile = f /\ r.audioEnd - r.audioStart > 0)
                /\ r.id \in DOMAIN spriteIndex'[f]
                      => spriteIndex'[f][r.id] =
                            <<r.audioStart * 100, (r.audioEnd - r.audioStart) * 100>>
          /\ \A f \in howlInstances : DOMAIN spriteIndex'[f] \subseteq {r.id : r \in BookRecords}
          /\ UNCHANGED <<session, selector, flags, refs, howl, events, eph, timers>>]_vars

\* an index was built for a book with a playable hotspot in a, one of zero duration in b
C23_Witness ==
    /\ spriteIndex # NotBuilt
    /\ bookHotspots[1].audioFile = "a"
    /\ bookHotspots[1].audioEnd > bookHotspots[1].audioStart
    /\ bookHotspots[2].audioFile = "b"
    /\ bookHotspots[2].audioEnd = bookHotspots[2].audioStart
    /\ DOMAIN spriteIndex["a"] = {"H1"}
    /\ DOMAIN spriteIndex["b"] = {}

\* C21: startRepeatMode leaves the selector empty, not repeating and not paused;
\* exitRepeatMode leaves the same and, besides, no ephemeral player alive and no
\* iteration timer pending
C21_EnterAndExitReset ==
    [][/\ StartRepeatMode
             => (/\ isRepeatMode'
                 /\ repeatStartHotspot' = None /\ repeatEndHotspot' = None
                 /\ ~isRepeating' /\ ~repeatPaused')
       /\ ExitRepeatMode
             => (/\ ~isRepeatMode'
                 /\ repeatStartHotspot' = None /\ repeatEndHotspot' = None
                 /\ ~isRepeating' /\ ~repeatPaused'
                 /\ IterationTimers(timers') = {}
                 /\ \A h \in EphSlots : eph'[h].st \in {"none", "zombie"})]_vars

\* C22: the `stop` event of an interrupted segment clears the current hotspot, leaves the
\* queue as it was, starts no player and arms no timer; exitConnectedMode itself leaves
\* the queue as it was
C22_InterruptionKeepsQueue ==
    [][/\ (events # <<>> /\ Head(events) = "stop" /\ DeliverEvent)
             => (/\ currentHotspot' = None
                 /\ audioQueue' = audioQueue
                 /\ howl' = howl
                 /\ timers' = timers)
       /\ ExitConnectedMode => (audioQueue' = audioQueue /\ SharedPlaying' = {})]_vars

\* a hotspot is still queued after the playing segment was stopped and its event delivered
C22_Witness ==
    /\ ~isConnectedMode
    /\ audioQueue # <<>>
    /\ SharedQuiet
    /\ ~isPlaying
    /\ currentHotspot = None

\* C24: the first tap becomes the start and the second the end whatever their offsets, and
\* the loop is started for exactly that pair, in tap order
C24_TapOrderDecides ==
    [][\A hotspot \in Hotspots :
          (RangeTap(hotspot) /\ ~isRepeating)
             => /\ repeatStartHotspot = None
                    => (repeatStartHotspot' = hotspot /\ repeatEndHotspot' = None)
                /\ (repeatStartHotspot # None /\ repeatEndHotspot = None)
                    => (/\ repeatStartHotspot' = repeatStartHotspot
                        /\ repeatEndHotspot' = hotspot
                        /\ \E t \in BagToSet(timers') :
                              /\ t.kind = "start"
                              /\ t.loop.s = repeatStartHotspot
                              /\ t.loop.e = hotspot
                              /\ timers' = timers (+) SetToBag({t}))]_vars

\* H2 then H1 were tapped (H2 lies later in the audio) and the loop of (H2, H1) is armed
C24_Witness ==
    /\ repeatStartHotspot = "H2"
    /\ repeatEndHotspot = "H1"
    /\ \E t \in BagToSet(timers) : t.kind = "start" /\ t.loop.s = "H2" /\ t.loop.e = "H1"

C26_QueueOnlyInSequential ==
    [][(QueueTimerFires /\ ~isConnectedMode)
          => (audioQueue' = audioQueue /\ howl' = howl /\ events' = events)]_vars

\* in Normal mode, with a hotspot left in the queue, the timer of a completion is pending
C26_Witness ==
    /\ ~isConnectedMode
    /\ audioQueue # <<>>
    /\ BagIn(QueueTimer, timers)
    /\ events = <<>>

\* the current hotspot is the segment that is playing
CurrentIsPlaying ==
    /\ currentHotspot # None
    /\ audioFile(currentHotspot) \in howlInstances
    /\ howl[audioFile(currentHotspot)] = [st |-> "playing", sprite |-> currentHotspot]

\* C27: a `stop` or `end` event delivered while the current hotspot's segment is playing
\* (the event is of an earlier segment) leaves the current hotspot, the queue and the
\* players as they are
C27_StaleTerminalDiscarded ==
    [][(events # <<>> /\ Head(events) \in {"stop", "end"} /\ CurrentIsPlaying /\ DeliverEvent)
          => (currentHotspot' = currentHotspot /\ audioQueue' = audioQueue /\ howl' = howl)]_vars

\* C28: a loop that is starting plays the pair the selector has recorded
C28_LoopPlaysRecordedPair ==
    \A h \in EphSlots :
        eph[h].st = "loading"
            => (eph[h].loop.s = repeatStartHotspot /\ eph[h].loop.e = repeatEndHotspot)

\* C29: while the repeat loop is repeating (Looping or Paused) no shared player is playing,
\* and a hotspot tap changes neither a shared player nor the current hotspot nor the queue
C29_LoopHasExclusiveControl ==
    [][/\ isRepeating' => SharedPlaying' = {}
       /\ \A hotspot \in Hotspots :
             (HotspotClick(hotspot) /\ isRepeating)
                => UNCHANGED <<howl, currentHotspot, audioQueue>>]_vars

\* C30: right after startRepeatMode no shared player is playing
C30_EnterRepeatStopsShared ==
    [][StartRepeatMode => SharedPlaying' = {}]_vars

\* C31: repeat mode and connected mode are never active together, the loop is never
\* paused while not repeating, and never repeating outside repeat mode
C31_ModesExclusive ==
    /\ ~(isRepeatMode /\ isConnectedMode)
    /\ repeatPaused => isRepeating
    /\ isRepeating => isRepeatMode

\* the pairs of hotspots with a loaded file and a positive duration
ValidPairs ==
    {p \in Hotspots \X Hotspots :
        audioFile(p[1]) \in audioFiles /\ duration(p[1], p[2]) > 0}

\* C32: without pause and exit, and with every load succeeding, an iteration of the
\* recorded range (its stop timer is armed) is eventually followed by the start of
\* another iteration of the same span, unless the selection has been changed
C32_LoopNeverStops ==
    \A p \in ValidPairs :
        (/\ <<repeatStartHotspot, repeatEndHotspot>> = p
         /\ \E t \in BagToSet(timers) : t.kind = "dur" /\ t.loop.s = p[1] /\ t.loop.e = p[2])
            ~> (\/ <<repeatStartHotspot, repeatEndHotspot>> # p
                \/ \E h \in EphSlots :
                      eph[h].st = "loading" /\ eph[h].loop.s = p[1] /\ eph[h].loop.e = p[2])

\* the delayed start of timer t is rejected: the file of its range is not loaded, or the
\* duration of the range is <= 0
RejectedStart(t) ==
    /\ t.kind = "start" /\ t.h = 0
    /\ audioFile(t.loop.s) \notin audioFiles \/ duration(t.loop.s, t.loop.e) <= 0
    /\ StartTimerFires

\* C33: a rejected loop start changes no shared player: what was playing is still playing
C33_RejectedStartKeepsPlayback ==
    [][\A t \in BagToSet(timers) : RejectedStart(t) => howl' = howl]_vars

\* C35: while the loop is repeating, the `end` event of a shared player changes neither the
\* playing indicator, nor the current hotspot, nor the queue, nor a player, nor a timer
C35_EndIgnoredWhileRepeating ==
    [][(events # <<>> /\ Head(events) = "end" /\ DeliverEvent /\ isRepeating)
          => UNCHANGED <<isPlaying, currentHotspot, audioQueue, howl, eph, timers>>]_vars

\* a shared player has played to its end during the loop and its `end` event was dropped:
\* the playing indicator is still on
C35_Witness ==
    /\ isRepeating
    /\ isPlaying
    /\ events = <<>>
    /\ \A f \in howlInstances : howl[f].st = "idle"
    /\ ~BagIn(QueueTimer, timers)

\* the load or the play of the ephemeral Howl h fails
EphFails(h) ==
    /\ EphLoadError \/ EphPlayError
    /\ eph[h].st \in {"loading", "playing"}
    /\ eph'[h].st \in {"none", "failed"}

\* C36: when the ephemeral player of an iteration fails to load or to play, the controller
\* is not repeating afterwards, no timer of that player is left that schedules a further
\* iteration, and the selector keeps its start and end; a tap on a selector with both
\* ends recorded, while not repeating, starts a new selection
C36_FailureEndsLoop ==
    [][/\ \A h \in EphSlots :
             EphFails(h) => (/\ ~isRepeating'
                             /\ \A t \in IterationTimers(timers') : t.h # h
                             /\ UNCHANGED selector)
       /\ \A hotspot \in Hotspots :
             (/\ RangeTap(hotspot) /\ ~isRepeating
              /\ repeatStartHotspot # None /\ repeatEndHotspot # None)
                => (repeatStartHotspot' = hotspot /\ repeatEndHotspot' = None)]_vars

\* C37: the current page index is never negative and, once the document has a page,
\* never beyond the last page
C37_PageIndexInRange ==
    /\ currentPage >= 0
    /\ numPages >= 1 => currentPage <= numPages - 1

\* a request has put the reader on the last page of a document of several pages
C37_Witness ==
    /\ numPages > 1
    /\ currentPage = numPages - 1

\* the render() calls issued so far
Issued == {k \in 1 .. MaxRenders : renders[k].phase # "none"}

\* the hotspot overlay is shown: shouldRender && isRendered
OverlayShown == pageProps.shouldRender /\ isRendered

\* C38 (as stated): only the most recently issued render sets the rendered flag, so the
\* hotspot overlay is never shown over a canvas that does not hold the complete rendering
\* of the current page at the current size
C38_NoStaleOverlay ==
    OverlayShown => canvas = [pageNumber |-> pageProps.pageNumber, size |-> pageProps.size,
                              complete |-> TRUE]

\* C38 (amended): the rendered flag is set only by the completion of the most recently
\* issued render
C38_OnlyLatestMarksRendered ==
    [][(~isRendered /\ isRendered')
          => \E k \in Issued : RenderCompletes(k) /\ \A j \in Issued : j <= k]_vars

\* a superseded render has resumed after a later one was issued and has dropped out; the
\* page is not marked as rendered
C38_Witness ==
    /\ \E k \in Issued : k < renderIdRef /\ renders[k].phase = "stale"
    /\ ~isRendered

\* e is a non-empty entry of the comma-separated list s: s holds, between two commas (or
\* an end of s), blanks, then e, then blanks, and e neither starts nor ends with a blank
IsEntry(e, s) ==
    \E i \in 1 .. Len(s), j \in 1 .. Len(s) :
        /\ i <= j
        /\ i = 1 \/ s[i - 1] = ","
        /\ j = Len(s) \/ s[j + 1] = ","
        /\ \A k \in i .. j : s[k] # ","
        /\ \E a \in i .. j, b \in i .. j :
              /\ a <= b
              /\ SubSeq(s, a, b) = e
              /\ s[a] # " " /\ s[b] # " "
              /\ \A k \in i .. (a - 1) : s[k] = " "
              /\ \A k \in (b + 1) .. j : s[k] = " "

\* C39: the answer carries the role "approved" exactly when the header gives an e-mail
\* that is a non-empty entry of APPROVED_EMAILS; a request without the header never
\* gets the role
C39_ApprovedIffListed ==
    res # NoResponse =>
        /\ ("approved" \in res.roles)
              <=> (principalHeader.kind = "user"
                     /\ IsEntry(principalHeader.userDetails, APPROVED_EMAILS))
        /\ principalHeader.kind = "none" => res.roles = {}

\* a listed e-mail got the role from a whitelist that also holds an empty entry
C39_Witness ==
    /\ res # NoResponse
    /\ "approved" \in res.roles
    /\ includes(split(APPROVED_EMAILS), <<>>)

\* a tap on the hotspot H1, whose file is loaded, makes its segment play
TapPlays == ENABLED (HotspotClick("H1") /\ howl'["a"] = [st |-> "playing", sprite |-> "H1"])

\* exitRepeatMode is available and leaves the reader outside repeat mode, not repeating
ExitRecovers == ENABLED (ExitRepeatMode /\ ~isRepeatMode' /\ ~isRepeating')

====
